---- MODULE Spec2Model ----
(***************************************************************************)
(* Contact form (handleSubmit / handleChange / validateForm) and the       *)
(* send-contact-email edge function (the Deno.serve handler).              *)
(*                                                                         *)
(* Strings that the code inspects character by character (the four form    *)
(* fields) are sequences of one-character strings; strings that the code   *)
(* only copies or compares (status texts, error texts, ids) are TLA+       *)
(* strings.  A JSON object is a function from its keys to its values; a    *)
(* key that is absent reads as undefined.  The requests of the form that   *)
(* are in flight are a bag of request bodies: two requests with the same   *)
(* body are told apart by nothing the code reads.                          *)
(***************************************************************************)
EXTENDS Integers, Sequences, FiniteSets, Bags, TLC

VARIABLES formData, isSubmitting, submitStatus, validationErrors,
          inflight, event, handler

vars == <<formData, isSubmitting, submitStatus, validationErrors,
          inflight, event, handler>>

formVars == <<formData, isSubmitting, submitStatus, validationErrors, inflight>>

-----------------------------------------------------------------------------
(* Bounds *)

\* Largest number of requests of the form that are in flight at once.
MaxInFlight == 2

-----------------------------------------------------------------------------
(* Strings *)

\* message.trim().length < 10
MinMessageLength == 10

Whitespace == {" "}

Rep(c, n) == [i \in 1..n |-> c]

RECURSIVE TrimStart(_)
TrimStart(s) ==
    IF s # <<>> /\ Head(s) \in Whitespace THEN TrimStart(Tail(s)) ELSE s

RECURSIVE TrimEnd(_)
TrimEnd(s) ==
    IF s # <<>> /\ s[Len(s)] \in Whitespace
    THEN TrimEnd(SubSeq(s, 1, Len(s) - 1))
    ELSE s

\* String.prototype.trim
Trim(s) == TrimEnd(TrimStart(s))

\* [^\s@]
PlainChar(c) == c \notin Whitespace /\ c # "@"

\* /^[^\s@]+@[^\s@]+\.[^\s@]+$/ .test(s)
emailRegexTest(s) ==
    \E i \in 2..Len(s) :
        /\ s[i] = "@"
        /\ \A k \in 1..(i - 1) : PlainChar(s[k])
        /\ \A k \in (i + 1)..Len(s) : PlainChar(s[k])
        /\ \E j \in (i + 2)..(Len(s) - 1) : s[j] = "."

-----------------------------------------------------------------------------
(* Values the model draws its inputs from *)

Fields == {"name", "email", "subject", "message"}

ValidEmail == <<"a", "@", "a", ".", "a">>

NameValues == {<<>>, <<"A">>}

SubjectValues == {<<>>, <<"H">>}

\* typed into the form
FormEmailValues == {<<>>, ValidEmail, <<"a", "@", "a">>}

\* sent to the handler by any client
EmailValues ==
    FormEmailValues \cup
        { <<"a", " ", "@", "a", ".", "a">>,
          <<"@", "a", ".", "a">>,
          <<"a", "@", "a", ".">>,
          <<"a", "@", ".", "a">>,
          <<"a", "@", "@", "a", ".", "a">>,
          <<"a", "@", "a", ".", "a", ".", "a">>,
          <<"a", ".", "a", "@", "a">>,
          <<" ">> }

LongMessage == Rep("a", MinMessageLength)

\* raw length above the minimum, trimmed length below it
PaddedMessage == <<" ", " ">> \o Rep("a", MinMessageLength - 1) \o <<" ">>

MessageValues == {<<>>, PaddedMessage, <<" ">> \o LongMessage}

HandlerMessageValues ==
    MessageValues \cup {LongMessage, Rep("a", MinMessageLength - 1), Rep(" ", MinMessageLength)}

-----------------------------------------------------------------------------
(* Dispatch handler: supabase/functions/send-contact-email/index.ts *)

corsHeaders ==
    [h \in {"Access-Control-Allow-Origin",
            "Access-Control-Allow-Methods",
            "Access-Control-Allow-Headers"} |->
        CASE h = "Access-Control-Allow-Origin" -> "*"
          [] h = "Access-Control-Allow-Methods" -> "GET, POST, PUT, DELETE, OPTIONS"
          [] h = "Access-Control-Allow-Headers" ->
                 "Content-Type, Authorization, X-Client-Info, Apikey"]

\* { ...corsHeaders, "Content-Type": "application/json" }
JsonHeaders == ("Content-Type" :> "application/json") @@ corsHeaders

NoResponse == [status |-> 0, headers |-> <<>>, body |-> [kind |-> "none"]]

\* new Response(JSON.stringify(obj), {status, headers: {...corsHeaders, ...}})
JsonResponse(status, obj) ==
    [status |-> status, headers |-> JsonHeaders,
     body |-> [kind |-> "json", value |-> obj]]

\* new Response(null, {status: 200, headers: corsHeaders})
PreflightResponse ==
    [status |-> 200, headers |-> corsHeaders, body |-> [kind |-> "null"]]

\* variant: the 405 is built without spreading corsHeaders
MethodNotAllowedNoCors ==
    [status |-> 405, headers |-> ("Content-Type" :> "application/json"),
     body |-> [kind |-> "json", value |-> [error |-> "Method not allowed"]]]

MethodNotAllowedResponse == JsonResponse(405, [error |-> "Method not allowed"])

MissingFieldsResponse ==
    JsonResponse(400, [error |-> "Missing required fields",
                       details |-> "name, email, and message are all required"])

InvalidEmailResponse == JsonResponse(400, [error |-> "Invalid email format"])

MessageTooShortResponse ==
    JsonResponse(400, [error |-> "Message too short",
                       details |-> "Message must be at least 10 characters long"])

ConfigErrorResponse == JsonResponse(500, [error |-> "Server configuration error"])

\* the top-level catch: details is the message of the exception caught
InternalErrorResponse(msg) ==
    JsonResponse(500, [error |-> "Internal server error", details |-> msg])

\* messages of the exceptions the runtime throws
BodySyntaxError == "Unexpected token in JSON"
DestructureTypeError == "Cannot destructure property 'name' of null"
FetchError == "error sending request"

\* !data[k] for a key read out of the parsed body
Falsy(data, k) == k \notin DOMAIN data \/ data[k] = <<>>

\* !name || !email || !message
MissingRequired(data) ==
    Falsy(data, "name") \/ Falsy(data, "email") \/ Falsy(data, "message")

\* message.trim().length < 10
MessageTooShort(m) == Len(Trim(m)) < MinMessageLength

Returned(r) == [pc |-> "done", calls |-> 0, response |-> r]

\* await fetch("https://api.resend.com/emails", ...): the handler is suspended
Dispatched == [pc |-> "awaiting", calls |-> 1, response |-> NoResponse]

\* variant: the configuration check is made before the body is validated
HandleRequestKeyFirst(req, apiKey) ==
    IF req.method = "OPTIONS" THEN Returned(PreflightResponse)
    ELSE IF req.method # "POST" THEN Returned(MethodNotAllowedResponse)
    ELSE IF req.body.kind = "text"
         THEN Returned(InternalErrorResponse(BodySyntaxError))
    ELSE IF req.body.kind = "null"
         THEN Returned(InternalErrorResponse(DestructureTypeError))
    ELSE IF ~apiKey THEN Returned(ConfigErrorResponse)
    ELSE LET data == req.body.value IN
         IF MissingRequired(data) THEN Returned(MissingFieldsResponse)
         ELSE IF ~emailRegexTest(data["email"]) THEN Returned(InvalidEmailResponse)
         ELSE IF MessageTooShort(data["message"]) THEN Returned(MessageTooShortResponse)
         ELSE Dispatched

\* The handler from its entry to its first return or to the provider call.
HandleRequest(req, apiKey) ==
    IF req.method = "OPTIONS" THEN Returned(PreflightResponse)
    ELSE IF req.method # "POST" THEN Returned(MethodNotAllowedResponse)
    ELSE IF req.body.kind = "text"
         THEN Returned(InternalErrorResponse(BodySyntaxError))
    ELSE IF req.body.kind = "null"
         THEN Returned(InternalErrorResponse(DestructureTypeError))
    ELSE LET data == req.body.value IN
         IF MissingRequired(data) THEN Returned(MissingFieldsResponse)
         ELSE IF ~emailRegexTest(data["email"]) THEN Returned(InvalidEmailResponse)
         ELSE IF MessageTooShort(data["message"]) THEN Returned(MessageTooShortResponse)
         ELSE IF ~apiKey THEN Returned(ConfigErrorResponse)
         ELSE Dispatched

\* variant: the provider's message is not relayed
ProviderDetailsDropped(data) == "Unknown error"

\* resendData.message || "Unknown error"
ProviderDetails(data) ==
    IF "message" \in DOMAIN data /\ data["message"] # ""
    THEN data["message"]
    ELSE "Unknown error"

\* JSON.stringify({success: true, message: ..., id: resendData.id}):
\* a key whose value is undefined is left out
SuccessBody(data) ==
    IF "id" \in DOMAIN data
    THEN [success |-> TRUE, message |-> "Email sent successfully", id |-> data["id"]]
    ELSE [success |-> TRUE, message |-> "Email sent successfully"]

\* The handler from the settling of the provider call to its return.
ProviderResponse(outcome) ==
    IF outcome.kind = "reject" THEN InternalErrorResponse(FetchError)
    ELSE IF outcome.body.kind = "text" THEN InternalErrorResponse(BodySyntaxError)
    ELSE IF ~outcome.ok
         THEN JsonResponse(500, [error |-> "Failed to send email",
                                 details |-> ProviderDetails(outcome.body.value)])
    ELSE JsonResponse(200, SuccessBody(outcome.body.value))

NoOutcome == [kind |-> "none"]

IdleHandler ==
    [pc |-> "idle", req |-> [method |-> "none"], apiKey |-> FALSE,
     calls |-> 0, outcome |-> NoOutcome, response |-> NoResponse]


\* event records the last run of a part of handleSubmit with what it was given;
\* every other step records OtherEvent
OtherEvent == [op |-> "other"]

\* JSON values a client other than the form may send: any subset of the keys
Opt(V) == {{}} \cup {{v} : v \in V}

Obj(n, e, s, m) ==
    LET opt == [name |-> n, email |-> e, subject |-> s, message |-> m]
    IN  [k \in {f \in Fields : opt[f] # {}} |-> CHOOSE v \in opt[k] : TRUE]

RequestBodies ==
    {[kind |-> "text"], [kind |-> "null"]} \cup
    { [kind |-> "json", value |-> Obj(n, e, s, m)] :
        n \in Opt(NameValues), e \in Opt(EmailValues),
        s \in Opt(SubjectValues), m \in Opt(HandlerMessageValues) }

Requests == [method : {"OPTIONS", "POST", "GET"}, body : RequestBodies]

\* what the provider call can settle with: fetch rejects, or a response whose
\* body resendResponse.json() parses or fails to parse
ProviderBodies ==
    {[kind |-> "text"]} \cup
    { [kind |-> "json", value |-> v] :
        v \in { <<>>,
                [message |-> ""],
                [message |-> "invalid from address"],
                [id |-> "abc123"] } }

ProviderOutcomes ==
    {[kind |-> "reject"]} \cup [kind : {"response"}, ok : BOOLEAN, body : ProviderBodies]

\* Deno.serve invokes the handler with a request of any client;
\* RESEND_API_KEY is read from the environment of that invocation.
ClientRequest ==
    /\ handler.pc = "idle"
    /\ \E req \in Requests, apiKey \in BOOLEAN :
          LET r == HandleRequest(req, apiKey)
          IN  handler' = [pc |-> r.pc, req |-> req, apiKey |-> apiKey,
                          calls |-> r.calls, outcome |-> NoOutcome,
                          response |-> r.response]
    /\ event' = OtherEvent
    /\ UNCHANGED formVars

\* variant: a provider call that did not succeed is made again
ProviderSettlesRetry ==
    /\ handler.pc = "awaiting"
    /\ \E o \in ProviderOutcomes :
          IF o.kind = "response" /\ o.ok
          THEN handler' = [handler EXCEPT !.pc = "done", !.outcome = o,
                                          !.response = ProviderResponse(o)]
          ELSE /\ handler.calls < 2
               /\ handler' = [handler EXCEPT !.calls = @ + 1, !.outcome = o]
    /\ event' = OtherEvent
    /\ UNCHANGED formVars

\* the provider call settles and the handler runs to its return
ProviderSettles ==
    /\ handler.pc = "awaiting"
    /\ \E o \in ProviderOutcomes :
          handler' = [handler EXCEPT !.pc = "done", !.outcome = o,
                                     !.response = ProviderResponse(o)]
    /\ event' = OtherEvent
    /\ UNCHANGED formVars

\* the response goes back to the client; the invocation leaves nothing behind
ClientReceives ==
    /\ handler.pc = "done"
    /\ handler' = IdleHandler
    /\ event' = OtherEvent
    /\ UNCHANGED formVars

\* The response of one whole invocation: the handler's own return, or its
\* return after the provider call has settled with outcome.
HandlerRun(req, apiKey, outcome) ==
    LET r == HandleRequest(req, apiKey)
    IN  IF r.pc = "done" THEN r.response ELSE ProviderResponse(outcome)

-----------------------------------------------------------------------------
(* Submission form: the Contact component *)

EmptyForm == [name |-> <<>>, email |-> <<>>, subject |-> <<>>, message |-> <<>>]

NoStatus == [type |-> "null", message |-> ""]

ValidationFailedStatus ==
    [type |-> "error",
     message |-> "Please fix the validation errors before submitting."]

SuccessStatus ==
    [type |-> "success",
     message |-> "Thank you for your message! We will get back to you soon."]

FallbackErrorMessage == "Failed to send message. Please try again."

NetworkErrorStatus ==
    [type |-> "error",
     message |-> "Network error. Please check your connection and try again."]

EmailErrorText == "Please enter a valid email address"

MessageErrorText == "Message must be at least 10 characters long"

\* variant: the form's pattern does not ask for a '.' after the '@'
EmailErrorNoDot(fd) ==
    /\ fd.email # <<>>
    /\ ~\E i \in 2..(Len(fd.email) - 1) :
            /\ fd.email[i] = "@"
            /\ \A k \in (1..Len(fd.email)) \ {i} : PlainChar(fd.email[k])

\* formData.email && !emailRegex.test(formData.email)
EmailError(fd) == fd.email # <<>> /\ ~emailRegexTest(fd.email)

\* variant: the length is taken without trimming
MessageErrorNoTrim(fd) == fd.message # <<>> /\ Len(fd.message) < MinMessageLength

\* formData.message && formData.message.trim().length < 10
MessageError(fd) == fd.message # <<>> /\ Len(Trim(fd.message)) < MinMessageLength

\* the errors object validateForm builds: a key is present when its error is set
validateForm(fd) ==
    [k \in {f \in {"email", "message"} :
              \/ f = "email" /\ EmailError(fd)
              \/ f = "message" /\ MessageError(fd)} |->
        IF k = "email" THEN EmailErrorText ELSE MessageErrorText]

\* Object.keys(errors).length === 0
NoErrors(errors) == DOMAIN errors = {}

\* JSON.stringify(formData): the four keys, each a string
JSONStringify(fd) == [kind |-> "json", value |-> [k \in Fields |-> fd[k]]]

FieldValues(f) ==
    CASE f = "name" -> NameValues
      [] f = "email" -> FormEmailValues
      [] f = "subject" -> SubjectValues
      [] f = "message" -> MessageValues

\* handleChange: sets the field; clears the field's validation error if set
\* (the key is set to undefined, which reads as no error)
handleChange ==
    /\ \E f \in Fields : \E v \in FieldValues(f) :
          /\ formData' = [formData EXCEPT ![f] = v]
          /\ validationErrors' =
                IF f \in DOMAIN validationErrors
                THEN [k \in DOMAIN validationErrors \ {f} |-> validationErrors[k]]
                ELSE validationErrors
    /\ event' = OtherEvent
    /\ UNCHANGED <<isSubmitting, submitStatus, inflight, handler>>

\* variant: the request is issued whatever validateForm returns
handleSubmitNoGuard ==
    LET errors == validateForm(formData) IN
    /\ validationErrors' = errors
    /\ BagCardinality(inflight) < MaxInFlight
    /\ isSubmitting' = TRUE
    /\ submitStatus' = IF NoErrors(errors) THEN NoStatus ELSE ValidationFailedStatus
    /\ inflight' = inflight (+) SetToBag({JSONStringify(formData)})
    /\ event' = [op |-> "submit", valid |-> NoErrors(errors)]
    /\ UNCHANGED <<formData, handler>>

\* handleSubmit up to its first await: validateForm, then either the early
\* return or setIsSubmitting(true), setSubmitStatus(null) and the fetch
handleSubmit ==
    LET errors == validateForm(formData) IN
    /\ validationErrors' = errors
    /\ IF ~NoErrors(errors)
       THEN /\ submitStatus' = ValidationFailedStatus
            /\ UNCHANGED <<isSubmitting, inflight>>
       ELSE /\ BagCardinality(inflight) < MaxInFlight
            /\ isSubmitting' = TRUE
            /\ submitStatus' = NoStatus
            /\ inflight' = inflight (+) SetToBag({JSONStringify(formData)})
    /\ event' = [op |-> "submit", valid |-> NoErrors(errors)]
    /\ UNCHANGED <<formData, handler>>

\* data.error || 'Failed to send message. Please try again.'
ErrorText(data) ==
    IF "error" \in DOMAIN data /\ data["error"] # ""
    THEN data["error"]
    ELSE FallbackErrorMessage

\* variant: setIsSubmitting(false) is the last statement of the try block
\* instead of a finally
SettleNoFinally(body, result) ==
    /\ BagIn(body, inflight)
    /\ inflight' = inflight (-) SetToBag({body})
    /\ IF result.kind = "reject" \/ result.body.kind # "json"
       THEN /\ submitStatus' = NetworkErrorStatus
            /\ UNCHANGED <<formData, validationErrors, isSubmitting>>
       ELSE IF result.ok
       THEN /\ submitStatus' = SuccessStatus
            /\ formData' = EmptyForm
            /\ validationErrors' = <<>>
            /\ isSubmitting' = FALSE
       ELSE /\ submitStatus' = [type |-> "error", message |-> ErrorText(result.body.value)]
            /\ isSubmitting' = FALSE
            /\ UNCHANGED <<formData, validationErrors>>
    /\ event' = [op |-> "settle", result |-> result]

\* handleSubmit from the settling of fetch to its end: response.json(), the
\* branch on response.ok, the catch and the finally
Settle(body, result) ==
    /\ BagIn(body, inflight)
    /\ inflight' = inflight (-) SetToBag({body})
    /\ isSubmitting' = FALSE
    /\ IF result.kind = "reject" \/ result.body.kind # "json"
       THEN /\ submitStatus' = NetworkErrorStatus
            /\ UNCHANGED <<formData, validationErrors>>
       ELSE IF result.ok
       THEN /\ submitStatus' = SuccessStatus
            /\ formData' = EmptyForm
            /\ validationErrors' = <<>>
       ELSE /\ submitStatus' = [type |-> "error", message |-> ErrorText(result.body.value)]
            /\ UNCHANGED <<formData, validationErrors>>
    /\ event' = [op |-> "settle", result |-> result]

\* response.ok
Ok(status) == status >= 200 /\ status <= 299

\* what fetch resolves with, as handleSubmit reads it
FetchResponse(from, status, body) ==
    [kind |-> "response", from |-> from, status |-> status, ok |-> Ok(status),
     body |-> body]

\* the responses the handler can give to a POST with this body, over the
\* API key being configured or not and the outcomes of the provider call
HandlerResponses(body) ==
    { HandlerRun([method |-> "POST", body |-> body], apiKey, o) :
        apiKey \in BOOLEAN, o \in ProviderOutcomes }

\* fetch resolves with the handler's response to the POST: the handler is
\* invoked with the request, runs to its return (the provider call settling
\* on the way when it is made) and its response reaches the form
FetchResolves ==
    /\ \E body \in BagToSet(inflight) : \E r \in HandlerResponses(body) :
          Settle(body, FetchResponse("handler", r.status, r.body))
    /\ UNCHANGED handler

\* responses of the hosting platform in front of the handler: a page that is
\* not JSON, with either kind of status, and a JSON error without an error key
GatewayResponses ==
    { FetchResponse("gateway", 200, [kind |-> "text"]),
      FetchResponse("gateway", 502, [kind |-> "text"]),
      FetchResponse("gateway", 401,
                    [kind |-> "json", value |-> [message |-> "Invalid JWT"]]) }

\* fetch resolves with a response that does not come from the handler
GatewayResponds ==
    /\ \E body \in BagToSet(inflight) : \E r \in GatewayResponses : Settle(body, r)
    /\ UNCHANGED handler

\* fetch rejects: no response is received
FetchRejects ==
    /\ \E body \in BagToSet(inflight) : Settle(body, [kind |-> "reject"])
    /\ UNCHANGED handler

\* variant: the submit button is never disabled
SubmitNeverDisabled == FALSE

\* <button type="submit" disabled={isSubmitting}>: while it is disabled the
\* page fires no submit event, by a click or by Enter in a field
SubmitDisabled == isSubmitting

-----------------------------------------------------------------------------
(* Specifications *)

Init ==
    /\ formData = EmptyForm
    /\ isSubmitting = FALSE
    /\ submitStatus = NoStatus
    /\ validationErrors = <<>>
    /\ inflight = EmptyBag
    /\ event = OtherEvent
    /\ handler = IdleHandler

\* the form, with the handler and the network answering its requests
Next ==
    \/ handleChange
    \/ handleSubmit
    \/ FetchResolves
    \/ GatewayResponds
    \/ FetchRejects

Spec == Init /\ [][Next]_vars

\* the handler alone, invoked by arbitrary clients
NextHandler ==
    \/ ClientRequest
    \/ ProviderSettles
    \/ ClientReceives

SpecHandler == Init /\ [][NextHandler]_vars

\* a request of the form settles: fetch rejects or resolves
Settles ==
    /\ \E body \in BagToSet(inflight) : inflight' = inflight (-) SetToBag({body})
    /\ (FetchRejects \/ GatewayResponds \/ FetchResolves)

\* every request the form has issued settles eventually

FairSpec == Spec /\ WF_vars(Settles)

-----------------------------------------------------------------------------
(* Claims about the dispatch handler, checked under SpecHandler *)

Required == {"name", "email", "message"}

\* the request of the current invocation is a POST whose body parses to an
\* object with name, email and message present (non-empty), a matching email
\* and a message of trimmed length >= 10, and the API key is configured
C1_Qualifies ==
    /\ handler.req.method = "POST"
    /\ handler.req.body.kind = "json"
    /\ LET d == handler.req.body.value
       IN  /\ Required \subseteq DOMAIN d
           /\ \A k \in Required : d[k] # <<>>
           /\ emailRegexTest(d["email"])
           /\ Len(Trim(d["message"])) >= MinMessageLength
    /\ handler.apiKey

C2_FirstFailure ==
    IF handler.req.method # "POST" THEN <<405, "Method not allowed">>
    ELSE IF handler.req.body.kind # "json" THEN <<500, "Internal server error">>
    ELSE LET d == handler.req.body.value IN
         IF \E k \in Required : k \notin DOMAIN d \/ d[k] = <<>>
         THEN <<400, "Missing required fields">>
         ELSE IF ~emailRegexTest(d["email"]) THEN <<400, "Invalid email format">>
         ELSE IF Len(Trim(d["message"])) < MinMessageLength
              THEN <<400, "Message too short">>
         ELSE IF ~handler.apiKey THEN <<500, "Server configuration error">>
         ELSE <<0, "none">>

C3_ProviderMessage(o) ==
    IF o.body.kind = "json" /\ "message" \in DOMAIN o.body.value
       /\ o.body.value["message"] # ""
    THEN o.body.value["message"]
    ELSE "Unknown error"

\* what C3 says the handler returns for the provider response o
C3_Expected(o, r) ==
    IF ~o.ok
    THEN /\ r.status = 500
         /\ r.body.value.error = "Failed to send email"
         /\ r.body.value.details = C3_ProviderMessage(o)
    ELSE /\ r.status = 200
         /\ r.body.value.success = TRUE
         /\ r.body.value.message = "Email sent successfully"
         /\ IF o.body.kind = "json" /\ "id" \in DOMAIN o.body.value
            THEN /\ "id" \in DOMAIN r.body.value
                 /\ r.body.value.id = o.body.value["id"]
            ELSE "id" \notin DOMAIN r.body.value

C3_Dispatched ==
    /\ handler.pc = "done"
    /\ handler.calls = 1
    /\ handler.outcome.kind = "response"

C4_CorsOnEveryResponse ==
    handler.pc = "done" =>
        /\ {"Access-Control-Allow-Origin", "Access-Control-Allow-Methods",
            "Access-Control-Allow-Headers"} \subseteq DOMAIN handler.response.headers
        /\ handler.response.headers["Access-Control-Allow-Origin"] = "*"
        /\ handler.response.headers["Access-Control-Allow-Methods"] =
               "GET, POST, PUT, DELETE, OPTIONS"
        /\ handler.response.headers["Access-Control-Allow-Headers"] =
               "Content-Type, Authorization, X-Client-Info, Apikey"
        /\ IF handler.req.method = "OPTIONS"
           THEN handler.response.body.kind = "null"
           ELSE handler.response.body.kind = "json"

\* the top-level catch has answered a POST whose body does not parse
C4_Witness ==
    /\ handler.pc = "done"
    /\ handler.req.method = "POST"
    /\ handler.req.body.kind = "text"
    /\ handler.response.status = 500

-----------------------------------------------------------------------------
(* Claims about the form, checked under Spec and FairSpec *)

\* the body of a POST that carries the four fields of the form
C5_Body == [kind |-> "json",
            value |-> [name |-> formData.name, email |-> formData.email,
                       subject |-> formData.subject, message |-> formData.message]]

C5_Step ==
    /\ event'.op = "submit" =>
          /\ event'.valid = (DOMAIN validationErrors' = {})
          /\ IF event'.valid
             THEN /\ BagCardinality(inflight') = BagCardinality(inflight) + 1
                  /\ CopiesIn(C5_Body, inflight') = CopiesIn(C5_Body, inflight) + 1
             ELSE /\ submitStatus' =
                        [type |-> "error",
                         message |-> "Please fix the validation errors before submitting."]
                  /\ inflight' = inflight
                  /\ isSubmitting' = isSubmitting
    /\ event'.op # "submit" =>
          \A b \in BagToSet(inflight') : CopiesIn(b, inflight') <= CopiesIn(b, inflight)

\* C5: a submit() whose validate() fails sets the fixed validation status,
\* issues no request and does not set submitting; a submit() whose validate()
\* passes issues exactly one POST carrying the four fields; no other step of
\* the form (a response, a transport failure) issues a request.
C5_OneRequestPerValidSubmit == [][C5_Step]_vars

\* submit() with an email that is no email: nothing is in flight
C5_Witness ==
    /\ event.op = "submit"
    /\ ~event.valid
    /\ formData.email = <<"a", "@", "a">>
    /\ "email" \in DOMAIN validationErrors
    /\ submitStatus = ValidationFailedStatus
    /\ inflight = EmptyBag

C6_Verdict ==
    /\ event.valid = (DOMAIN validationErrors = {})
    /\ DOMAIN validationErrors \subseteq {"email", "message"}

\* C6 as stated: validate() produces an email error exactly when the email
\* does not match the pattern, a message error exactly when the trimmed
\* length of the message is below 10, and returns true exactly when it
\* produces neither; the verdict is a function of the field values alone.
C6_ErrorsExactly ==
    event.op = "submit" =>
        /\ "email" \in DOMAIN validationErrors <=> ~emailRegexTest(formData.email)
        /\ "message" \in DOMAIN validationErrors <=>
               Len(Trim(formData.message)) < MinMessageLength
        /\ C6_Verdict

\* C6 as amended: the same for a field that is not empty; an empty email and
\* an empty message produce no error.
C6_ErrorsExactlyWhenFilled ==
    event.op = "submit" =>
        /\ "email" \in DOMAIN validationErrors <=>
               (formData.email # <<>> /\ ~emailRegexTest(formData.email))
        /\ "message" \in DOMAIN validationErrors <=>
               (formData.message # <<>> /\ Len(Trim(formData.message)) < MinMessageLength)
        /\ C6_Verdict

\* validate() has run on a message that is long enough only with its padding
C6_Witness ==
    /\ event.op = "submit"
    /\ formData.message = PaddedMessage
    /\ formData.email = ValidEmail
    /\ DOMAIN validationErrors = {"message"}

\* C7 as stated, first half: every submit() invocation ends with
\* submitting = false, on the validation-failure path as on the others.
C7_EndsNotSubmitting ==
    (event.op = "settle" \/ (event.op = "submit" /\ ~event.valid)) => ~isSubmitting

C7_Step ==
    /\ event'.op = "settle" => ~isSubmitting'
    /\ (event'.op = "submit" /\ ~event'.valid) => isSubmitting' = isSubmitting

\* C7 as amended: a submit() that passed validation ends, when its request
\* settles, with submitting = false; a submit() that fails validation leaves
\* submitting as it was; and, every issued request settling eventually,
\* submitting = true leads to submitting = false.
C7_SubmittingEnds == [][C7_Step]_vars /\ (isSubmitting ~> ~isSubmitting)

\* a transport failure has ended a submit()
C7_Witness ==
    /\ event.op = "settle"
    /\ event.result.kind = "reject"
    /\ ~isSubmitting
    /\ submitStatus = NetworkErrorStatus

\* C8: whenever the POST receives an HTTP success response, that submit()
\* ends with status = success, the four fields empty and no validation error.
C8_SuccessResets ==
    (event.op = "settle" /\ event.result.kind = "response" /\ event.result.ok) =>
        /\ submitStatus.type = "success"
        /\ formData = [name |-> <<>>, email |-> <<>>, subject |-> <<>>, message |-> <<>>]
        /\ DOMAIN validationErrors = {}

\* the error text the server provided, or the fallback
C9_ServerText(result) ==
    IF result.body.kind = "json" /\ "error" \in DOMAIN result.body.value
       /\ result.body.value["error"] # ""
    THEN result.body.value["error"]
    ELSE "Failed to send message. Please try again."

C9_Step ==
    event'.op = "settle" =>
        /\ (event'.result.kind = "response" /\ ~event'.result.ok) =>
              /\ submitStatus' = [type |-> "error", message |-> C9_ServerText(event'.result)]
              /\ formData' = formData
        /\ (submitStatus'.message =
                "Network error. Please check your connection and try again.")
              <=> event'.result.kind = "reject"

\* C9: an HTTP non-success response sets status = error with the server's
\* error text or the fallback and leaves the fields; the network-error
\* message is the status exactly when no response was received.
C9_ErrorStatus == [][C9_Step]_vars

\* the request that the step settles
C10_Request ==
    CHOOSE b \in BagToSet(inflight) : CopiesIn(b, inflight') < CopiesIn(b, inflight)

\* fetch resolves with the handler's response to a request the form sent
C10_Answered ==
    /\ event'.op = "settle"
    /\ event'.result.kind = "response"
    /\ event'.result.from = "handler"

\* C10 as stated: the handler never answers 400 to a request the form sent.
C10_NeverRejected == [][C10_Answered => event'.result.status # 400]_vars

C10_Step ==
    C10_Answered =>
        IF \E k \in Required : C10_Request.value[k] = <<>>
        THEN /\ event'.result.status = 400
             /\ event'.result.body.value.error = "Missing required fields"
        ELSE event'.result.status # 400

\* C10 as amended: the handler answers 400 to a request the form sent exactly
\* when its name, email or message is empty, and then with 'Missing required
\* fields'; a sent request with the three filled passes the handler's
\* required-field, email-format and message-length checks.
C10_RejectedOnlyWhenEmpty == [][C10_Step]_vars

\* a request sent with name, email and a padded message has passed the
\* handler's checks and the mail is sent
C10_Witness ==
    /\ event.op = "settle"
    /\ event.result.kind = "response"
    /\ event.result.from = "handler"
    /\ event.result.status = 200
    /\ submitStatus = SuccessStatus

\* C11 as stated: submitting = true in every state in which a request issued
\* by submit() is in flight, whatever the interleaving of submit(), update()
\* and request completions.
C11_SubmittingWhenInFlight == inflight # EmptyBag => isSubmitting

\* at most one request is in flight, and submitting = true while it is
C11_Inv ==
    /\ BagCardinality(inflight) <= 1
    /\ inflight # EmptyBag => isSubmitting

\* the step is not a submit() invoked while the submit button is disabled
C11_ThroughButton == event'.op = "submit" => ~SubmitDisabled

C11_Step == (C11_Inv /\ C11_ThroughButton) => C11_Inv'

\* C11 as amended: as long as submit() is invoked only while the submit
\* button is enabled, at most one request is in flight and submitting = true
\* in every state in which it is, across update() calls and completions: no
\* step other than a submit() invoked while the button is disabled breaks it.
C11_SubmittingWhenInFlightByButton == [][C11_Step]_vars

\* one request is in flight, submitting = true, and update() has since
\* changed the fields
C11_Witness ==
    /\ BagCardinality(inflight) = 1
    /\ isSubmitting
    /\ event = OtherEvent
    /\ ~BagIn(JSONStringify(formData), inflight)

====
